---- MODULE Spec2Model ----
(***************************************************************************)
(* The BibTeX-to-HTML pipeline of the homepage: the fetch chain, the three  *)
(* copies of parseBibtex and renderHTML kept in the repository, and the    *)
(* two images that toggleQRCode switches.                                  *)
(*                                                                         *)
(* Text is a sequence of one-character strings.  A JavaScript object is a   *)
(* sequence of <<name, value>> pairs in insertion order.  A fragment is a   *)
(* sequence of strings: one-character strings for interpolated values and   *)
(* longer strings for the literal chunks of the template literals.          *)
(***************************************************************************)
EXTENDS Integers, Sequences, FiniteSets, TLC

(***************************************************************************)
(* Versions of the script: 1 is src/bibliography.js, 2 and 3 are the second *)
(* and third copies in src/unnamed/part_000.                                *)
(***************************************************************************)
Versions == {1, 2, 3}

\* The value of a property that is not there, which a template literal
\* prints as the text "undefined".
Undefined == <<"undefined">>

\* JavaScript numbers: an integer or NaN.
NaN == [nan |-> TRUE, val |-> 0]
Num(n) == [nan |-> FALSE, val |-> n]

---------------------------------------------------------------------------
(* String.prototype methods, on sequences of characters *)

WhiteSpace == {" ", "\n", "\t", "\r"}

RECURSIVE trimStart(_)
trimStart(s) ==
  IF s # <<>> /\ Head(s) \in WhiteSpace THEN trimStart(Tail(s)) ELSE s

RECURSIVE trimEnd(_)
trimEnd(s) ==
  IF s # <<>> /\ s[Len(s)] \in WhiteSpace
    THEN trimEnd(SubSeq(s, 1, Len(s) - 1))
    ELSE s

trim(s) == trimEnd(trimStart(s))

includes(s, c) == \E i \in 1..Len(s) : s[i] = c

startsWith(s, c) == s # <<>> /\ Head(s) = c

\* 1-based position of the first c in s, 0 when there is none.
indexOf(s, c) ==
  IF includes(s, c)
    THEN CHOOSE i \in 1..Len(s) : s[i] = c /\ \A j \in 1..(i - 1) : s[j] # c
    ELSE 0

\* s.split(c) for a one-character separator: always at least one part.
RECURSIVE split(_, _)
split(s, c) ==
  LET i == indexOf(s, c)
  IN  IF i = 0
        THEN <<s>>
        ELSE <<SubSeq(s, 1, i - 1)>> \o split(SubSeq(s, i + 1, Len(s)), c)

\* s.substring(1)
substring1(s) == IF s = <<>> THEN <<>> ELSE Tail(s)

\* s.replace(/[...]/g, ''): every character of the class is removed.
removeAll(s, class) == SelectSeq(s, LAMBDA ch : ch \notin class)

\* s.replace(c, ''): only the first occurrence is removed.
removeFirst(s, c) ==
  LET i == indexOf(s, c)
  IN  IF i = 0 THEN s ELSE SubSeq(s, 1, i - 1) \o SubSeq(s, i + 1, Len(s))

\* s.replace(/,$/, ''): one comma at the very end of the string is removed.
removeFinalComma(s) ==
  IF s # <<>> /\ s[Len(s)] = "," THEN SubSeq(s, 1, Len(s) - 1) ELSE s

UpperCase == <<"A", "B", "C", "D", "E", "F", "G", "H", "I", "J", "K", "L", "M",
               "N", "O", "P", "Q", "R", "S", "T", "U", "V", "W", "X", "Y", "Z">>
LowerCase == <<"a", "b", "c", "d", "e", "f", "g", "h", "i", "j", "k", "l", "m",
               "n", "o", "p", "q", "r", "s", "t", "u", "v", "w", "x", "y", "z">>

lowerChar(ch) ==
  IF \E i \in 1..Len(UpperCase) : UpperCase[i] = ch
    THEN LowerCase[CHOOSE i \in 1..Len(UpperCase) : UpperCase[i] = ch]
    ELSE ch

toLowerCase(s) == [i \in 1..Len(s) |-> lowerChar(s[i])]

\* s.replace(/ and /g, ', ') and, with ci, s.replace(/ and /gi, ', ').
AndSep == <<" ", "a", "n", "d", " ">>
CommaSep == <<",", " ">>

RECURSIVE replaceAnd(_, _)
replaceAnd(s, ci) ==
  IF Len(s) < Len(AndSep)
    THEN s
    ELSE LET pre == SubSeq(s, 1, Len(AndSep))
             hit == IF ci THEN toLowerCase(pre) = AndSep ELSE pre = AndSep
         IN  IF hit
               THEN CommaSep \o replaceAnd(SubSeq(s, Len(AndSep) + 1, Len(s)), ci)
               ELSE <<Head(s)>> \o replaceAnd(Tail(s), ci)

---------------------------------------------------------------------------
(* Conversions of strings to numbers *)

Digits == <<"0", "1", "2", "3", "4", "5", "6", "7", "8", "9">>

IsDigit(ch) == \E d \in 1..Len(Digits) : Digits[d] = ch

DigitVal(ch) == (CHOOSE d \in 1..Len(Digits) : Digits[d] = ch) - 1

RECURSIVE DecVal(_)
DecVal(s) ==
  IF s = <<>> THEN 0
  ELSE DecVal(SubSeq(s, 1, Len(s) - 1)) * Len(Digits) + DigitVal(s[Len(s)])

RECURSIVE DigitPrefix(_)
DigitPrefix(s) ==
  IF s # <<>> /\ IsDigit(Head(s)) THEN <<Head(s)>> \o DigitPrefix(Tail(s)) ELSE <<>>

\* parseInt(s) of a defined string: leading white space is skipped, the
\* longest run of decimal digits is read, NaN when there is none.  (Signs and
\* the 0x prefix do not occur in the texts of this model.)
parseInt(s) ==
  LET d == DigitPrefix(trimStart(s))
  IN  IF d = <<>> THEN NaN ELSE Num(DecVal(d))

\* ToNumber(v), the conversion the operators > and - apply to a property
\* value: undefined gives NaN, a blank string 0, a string of decimal digits
\* its value and any other string NaN.  (Signs, fractions, exponents and
\* radix prefixes do not occur in the texts of this model.)
ToNumber(v) ==
  IF v = Undefined THEN NaN
  ELSE LET t == trim(v)
       IN  IF t = <<>> THEN Num(0)
           ELSE IF \A i \in 1..Len(t) : IsDigit(t[i]) THEN Num(DecVal(t))
           ELSE NaN

\* A value is truthy when it is defined and not the empty string.
Truthy(v) == v # Undefined /\ v # <<>>

---------------------------------------------------------------------------
(* Objects: sequences of <<name, value>> pairs in insertion order *)

EmptyObject == <<>>

has(obj, name) == \E i \in 1..Len(obj) : obj[i][1] = name

\* obj[name], undefined when the property is not there.
get(obj, name) ==
  IF has(obj, name)
    THEN obj[CHOOSE i \in 1..Len(obj) : obj[i][1] = name][2]
    ELSE Undefined

\* obj[name] = value: an existing property keeps its place.
set(obj, name, value) ==
  IF has(obj, name)
    THEN [i \in 1..Len(obj) |->
            IF obj[i][1] = name THEN <<name, value>> ELSE obj[i]]
    ELSE Append(obj, <<name, value>>)

\* Object.keys(obj).length
keysLength(obj) == Len(obj)

kType == <<"t", "y", "p", "e">>
kKey == <<"k", "e", "y">>
kYear == <<"y", "e", "a", "r">>
kAuthor == <<"a", "u", "t", "h", "o", "r">>
kTitle == <<"t", "i", "t", "l", "e">>
kJournal == <<"j", "o", "u", "r", "n", "a", "l">>
kBooktitle == <<"b", "o", "o", "k", "t", "i", "t", "l", "e">>
kPublisher == <<"p", "u", "b", "l", "i", "s", "h", "e", "r">>
kHowpublished == <<"h", "o", "w", "p", "u", "b", "l", "i", "s", "h", "e", "d">>
kDoi == <<"d", "o", "i">>

---------------------------------------------------------------------------
(* parseBibtex, the three copies *)

\* const [a, b] = parts: the first two elements, undefined when missing.
first(parts) == IF Len(parts) >= 1 THEN parts[1] ELSE Undefined
second(parts) == IF Len(parts) >= 2 THEN parts[2] ELSE Undefined

\* The window of the year filter, in years.
Window == 3

limYear(currentYear) == currentYear - Window

\* The loop state of the line-by-line copies: the records pushed so far, the
\* record under construction, and whether a TypeError has been thrown.
LoopStart == [entries |-> <<>>, currentEntry |-> EmptyObject, threw |-> FALSE]

\* The header branch of versions 1 and 2: type and key from the text after
\* the marker; key.trim() throws a TypeError when the line has no brace.
headerEntry(line) ==
  LET parts == split(substring1(line), "{")
      type == first(parts)
      key == second(parts)
  IN  IF key = Undefined
        THEN [threw |-> TRUE, entry |-> set(EmptyObject, kType, trim(type))]
        ELSE [threw |-> FALSE,
              entry |-> set(set(EmptyObject, kType, trim(type)),
                            kKey, removeAll(trim(key), {","}))]

\* The field branch of versions 1 and 2.
fieldValue12(line) == removeAll(trim(second(split(line, "="))), {"{", "}", ","})

fieldName12(line) == trim(first(split(line, "=")))

\* Version 2 pushes the record that a new header closes only when its year
\* is greater than the limit; version 1 always pushes it.
pushesClosed(ver, entry, currentYear) ==
  IF ver = 1
    THEN TRUE
    ELSE LET y == ToNumber(get(entry, kYear))
         IN  ~y.nan /\ y.val > limYear(currentYear)

\* One turn of lines.forEach in versions 1 and 2.
lineStep(ver, st, rawLine, currentYear) ==
  LET line == trim(rawLine)
  IN  IF st.threw THEN st
      ELSE IF startsWith(line, "@")
        THEN LET pushed == IF keysLength(st.currentEntry) # 0
                                /\ pushesClosed(ver, st.currentEntry, currentYear)
                             THEN Append(st.entries, st.currentEntry)
                             ELSE st.entries
                 h == headerEntry(line)
             IN  [entries |-> pushed, currentEntry |-> h.entry, threw |-> h.threw]
      ELSE IF includes(line, "=")
        THEN [st EXCEPT !.currentEntry =
                set(st.currentEntry, fieldName12(line), fieldValue12(line))]
      ELSE st

RECURSIVE linesLoop(_, _, _, _)
linesLoop(ver, st, lines, currentYear) ==
  IF lines = <<>> THEN st
  ELSE linesLoop(ver, lineStep(ver, st, Head(lines), currentYear),
                 Tail(lines), currentYear)

\* Versions 1 and 2: the last record is pushed whenever it has a property.
parseBibtex12(ver, bibtex, currentYear) ==
  LET st == linesLoop(ver, LoopStart, split(bibtex, "\n"), currentYear)
  IN  IF st.threw
        THEN [threw |-> TRUE, entries |-> <<>>]
        ELSE [threw |-> FALSE,
              entries |-> IF keysLength(st.currentEntry) # 0
                            THEN Append(st.entries, st.currentEntry)
                            ELSE st.entries]

\* The field branch of version 3.
fieldValue3(line) ==
  trim(removeFinalComma(removeAll(second(split(line, "=")), {"{", "}", "\""})))

fieldName3(line) == toLowerCase(trim(first(split(line, "="))))

RECURSIVE fieldsLoop(_, _)
fieldsLoop(entry, fields) ==
  IF fields = <<>> THEN entry
  ELSE LET line == trim(Head(fields))
       IN  fieldsLoop(IF includes(line, "=")
                        THEN set(entry, fieldName3(line), fieldValue3(line))
                        ELSE entry,
                      Tail(fields))

\* The record version 3 builds from one segment of the split at the marker.
rawEntry(raw) ==
  LET lines == split(raw, "\n")
      parts == split(Head(lines), "{")
      type == first(parts)
      key == second(parts)
      entry == set(set(EmptyObject, kType, trim(type)),
                   kKey, IF Truthy(key) THEN trim(removeFirst(key, ",")) ELSE <<>>)
  IN  fieldsLoop(entry, Tail(lines))

\* A filter that compares with > where version 3 compares with >=.
keepsEntryStrict(entry, currentYear) ==
  LET y == get(entry, kYear)
  IN  Truthy(y) /\ ~parseInt(y).nan /\ parseInt(y).val > limYear(currentYear)

\* Version 3 keeps a record when it has a year and parseInt of it reaches
\* the limit.
keepsEntry(entry, currentYear) ==
  LET y == get(entry, kYear)
  IN  Truthy(y) /\ ~parseInt(y).nan /\ parseInt(y).val >= limYear(currentYear)

RECURSIVE rawLoop(_, _)
rawLoop(rawEntries, currentYear) ==
  IF rawEntries = <<>> THEN <<>>
  ELSE LET entry == rawEntry(Head(rawEntries))
       IN  (IF keepsEntry(entry, currentYear) THEN <<entry>> ELSE <<>>)
             \o rawLoop(Tail(rawEntries), currentYear)

parseBibtex3(bibtex, currentYear) ==
  [threw |-> FALSE, entries |-> rawLoop(Tail(split(bibtex, "@")), currentYear)]

parseBibtex(ver, bibtex, currentYear) ==
  IF ver = 3
    THEN parseBibtex3(bibtex, currentYear)
    ELSE parseBibtex12(ver, bibtex, currentYear)

---------------------------------------------------------------------------
(* renderHTML, the three copies *)

\* a || b || c || d: the first truthy operand, otherwise the last one.
or4(a, b, c, d) ==
  IF Truthy(a) THEN a ELSE IF Truthy(b) THEN b ELSE IF Truthy(c) THEN c ELSE d

\* The comparator of entries.sort: b.year - a.year in version 2 and
\* (b.year || 0) - (a.year || 0) in version 3.  sort reads a NaN result as 0.
yearOperand(ver, entry) ==
  LET y == get(entry, kYear)
  IN  IF ver = 3 /\ ~Truthy(y) THEN Num(0) ELSE ToNumber(y)

compareFn(ver, a, b) ==
  LET ya == yearOperand(ver, a)
      yb == yearOperand(ver, b)
  IN  IF ya.nan \/ yb.nan THEN 0 ELSE yb.val - ya.val

\* Whether the comparator is a consistent comparator for the elements of the
\* array (ECMAScript, Array.prototype.sort): otherwise the order that sort
\* leaves is implementation-defined.
consistentComparator(ver, arr) ==
  LET I == 1..Len(arr)
      c(i, j) == compareFn(ver, arr[i], arr[j])
  IN  /\ \A i \in I : c(i, i) = 0
      /\ \A i, j \in I : c(i, j) = 0 => c(j, i) = 0
      /\ \A i, j, k \in I :
            /\ (c(i, j) = 0 /\ c(j, k) = 0) => c(i, k) = 0
            /\ (c(i, j) < 0 /\ c(j, k) < 0) => c(i, k) < 0
            /\ (c(i, j) > 0 /\ c(j, k) > 0) => c(i, k) > 0

\* x goes before the first element that the comparator puts after it.
RECURSIVE insertStable(_, _, _)
insertStable(ver, sorted, x) ==
  IF sorted = <<>> THEN <<x>>
  ELSE IF compareFn(ver, Head(sorted), x) > 0
    THEN <<x>> \o sorted
    ELSE <<Head(sorted)>> \o insertStable(ver, Tail(sorted), x)

\* The stable sort of the array by the comparator.
RECURSIVE stableSort(_, _)
stableSort(ver, arr) ==
  IF arr = <<>> THEN <<>>
  ELSE insertStable(ver, stableSort(ver, SubSeq(arr, 1, Len(arr) - 1)), arr[Len(arr)])

Reorderings(arr) ==
  { [i \in 1..Len(arr) |-> arr[f[i]]] :
      f \in { g \in [1..Len(arr) -> 1..Len(arr)] :
                \A i, j \in 1..Len(arr) : g[i] = g[j] => i = j } }

\* The arrays that entries.sort(...) can leave: version 1 does not sort.
sortOutcomes(ver, arr) ==
  IF ver = 1 THEN {arr}
  ELSE IF consistentComparator(ver, arr) THEN {stableSort(ver, arr)}
  ELSE Reorderings(arr)

\* The block of one record in version 1.
entryBlock1(entry) ==
  <<"\n      <div class=\"entry\">\n        <p>\n        ">>
    \o get(entry, kAuthor)
    \o <<",\n        <i>\"">>
    \o get(entry, kTitle)
    \o <<"\"</i>\n        ">>
    \o or4(get(entry, kJournal), get(entry, kBooktitle),
           get(entry, kPublisher), get(entry, kHowpublished))
    \o <<", ">>
    \o get(entry, kYear)
    \o <<"\n        </p>\n      </div>\n    ">>

\* The DOI link of version 2.
doiLink2(entry) ==
  IF Truthy(get(entry, kDoi))
    THEN <<"<a href=\"https://doi.org/">> \o get(entry, kDoi) \o <<"\">">>
           \o get(entry, kDoi) \o <<"</a>">>
    ELSE <<>>

\* entry.author.replace throws a TypeError when the record has no author.
blockThrows2(entry) == get(entry, kAuthor) = Undefined

\* The block of one record in version 2.
entryBlock2(entry) ==
  <<"\n      <div class=\"entry\">\n        <p>\n        ">>
    \o replaceAnd(get(entry, kAuthor), FALSE)
    \o <<",\n        <i>\"">>
    \o get(entry, kTitle)
    \o <<"\"</i>\n        ">>
    \o or4(get(entry, kJournal), get(entry, kBooktitle),
           get(entry, kPublisher), get(entry, kHowpublished))
    \o <<", ">>
    \o get(entry, kYear)
    \o <<"\n        ">>
    \o doiLink2(entry)
    \o <<"\n        </p>\n      </div>\n    ">>

\* The block of one record in version 3.
entryBlock3(entry) ==
  LET author == IF Truthy(get(entry, kAuthor))
                  THEN replaceAnd(get(entry, kAuthor), TRUE)
                  ELSE <<"Unknown Author">>
      title == IF Truthy(get(entry, kTitle))
                 THEN <<"<i>\"">> \o get(entry, kTitle) \o <<"\"</i>">>
                 ELSE <<"Untitled">>
      journal == get(entry, kJournal)
      source == IF Truthy(or4(journal, get(entry, kBooktitle),
                              get(entry, kPublisher), get(entry, kHowpublished)))
                  THEN or4(journal, get(entry, kBooktitle),
                           get(entry, kPublisher), get(entry, kHowpublished))
                  ELSE <<>>
      year == IF Truthy(get(entry, kYear)) THEN get(entry, kYear) ELSE <<>>
      doiLink == IF Truthy(get(entry, kDoi))
                   THEN <<"<a href=\"https://doi.org/">> \o get(entry, kDoi)
                          \o <<"\" target=\"_blank\">">> \o get(entry, kDoi)
                          \o <<"</a>">>
                   ELSE <<>>
  IN  <<"\n      <div class=\"entry mb-2\">\n        <p>\n          ">>
        \o author \o <<", ">> \o title \o <<". ">> \o source \o <<", ">>
        \o year \o <<". ">> \o doiLink
        \o <<"\n        </p>\n      </div>\n    ">>

entryBlock(ver, entry) ==
  IF ver = 1 THEN entryBlock1(entry)
  ELSE IF ver = 2 THEN entryBlock2(entry)
  ELSE entryBlock3(entry)

\* entries.map(...).join('')
RECURSIVE mapJoin(_, _)
mapJoin(ver, arr) ==
  IF arr = <<>> THEN <<>>
  ELSE entryBlock(ver, Head(arr)) \o mapJoin(ver, Tail(arr))

\* The text that goes around the blocks.
wrap(ver, html) ==
  IF ver = 1
    THEN <<"\n    <html>\n      <head>\n        <title>BibTeX Entries</title>\n      </head>\n      <body>\n        ">>
           \o html \o <<"\n      </body>\n    </html>\n  ">>
  ELSE IF ver = 2
    THEN <<"\n        ">> \o html \o <<"\n  ">>
  ELSE html

\* Whether the call throws: only version 2 can, in the map callback.
renderThrows(ver, arr) ==
  ver = 2 /\ \E i \in 1..Len(arr) : blockThrows2(arr[i])

\* renderHTML(entries) once sort has left the array as sorted: what the call
\* returns or throws, and the array afterwards.
renderHTML(ver, sorted) ==
  [threw |-> renderThrows(ver, sorted),
   html |-> IF renderThrows(ver, sorted) THEN <<>> ELSE wrap(ver, mapJoin(ver, sorted)),
   entries |-> sorted]

---------------------------------------------------------------------------
(* The texts that bibliography.bib can hold in this model: up to MaxEntries *)
(* blocks, each one of the pieces below.                                    *)

\* a well-formed entry: braces, year 2021, no author
EntryP ==
  <<"@", "m", "i", "s", "c", "{", "p", ",", "\n", " ", " ", "y", "e", "a",
  "r", " ", "=", " ", "{", "2", "0", "2", "1", "}", ",", "\n", "}", "\n">>

\* a well-formed entry: quotes and a bare value, year 2022
EntryQ ==
  <<"@", "m", "i", "s", "c", "{", "q", ",", "\n", " ", " ", "a", "u", "t",
  "h", "o", "r", " ", "=", " ", "\"", "A", " ", "a", "n", "d", " ", "B",
  "\"", ",", "\n", " ", " ", "y", "e", "a", "r", " ", "=", " ", "2", "0",
  "2", "2", "\n", "}", "\n">>

\* an entry without a year
EntryR ==
  <<"@", "m", "i", "s", "c", "{", "r", ",", "\n", " ", " ", "t", "i", "t",
  "l", "e", " ", "=", " ", "{", "T", "}", ",", "\n", "}", "\n">>

\* a header line without a brace
NoBrace ==
  <<"@", "m", "i", "s", "c", "\n">>

\* a line with = and nothing to its right
EmptySide ==
  <<"x", " ", "=", "\n">>

Blocks == <<EntryP, EntryQ, EntryR, NoBrace, EmptySide>>

\* The largest number of blocks in the file.
MaxEntries == 3

Files == UNION { [1..n -> 1..Len(Blocks)] : n \in 0..MaxEntries }

RECURSIVE TextOf(_)
TextOf(file) ==
  IF file = <<>> THEN <<>> ELSE Blocks[Head(file)] \o TextOf(Tail(file))

\* The years that new Date().getFullYear() gives in this model.
CurrentYears == {2024, 2025}

\* What the div with id bibtexEntries holds when the document is parsed.
InitialContent ==
  <<"\n                    <!-- Rendered BibTeX entries will be displayed here -->\n                ">>

---------------------------------------------------------------------------
(* The page load *)

VARIABLES
  ver,          \* which copy of the script the page runs
  currentYear,  \* the year of the system clock
  bibFile,      \* the blocks of bibliography.bib on the server
  pc,           \* where the promise chain is
  domReady,     \* whether the parser has created the div bibtexEntries
  bibtex,       \* the text handed to the second then callback
  entries,      \* the array entries of that callback
  html,         \* the value renderHTML returned to it
  container,    \* innerHTML of the div bibtexEntries
  console,      \* the calls of console.log and console.error, in order
  reason,       \* the rejection reason of the chain
  trace,        \* the calls made so far, in order
  fieldIn,      \* the input of the field branch or the lines of one entry
  fieldOut,     \* the values parsed from the plain and the decorated line
  avatar,       \* style.display of the image avatar
  qrcode        \* style.display of the image qrcode

vars == <<ver, currentYear, bibFile, pc, domReady, bibtex, entries, html,
          container, console, reason, trace, fieldIn, fieldOut, avatar,
          qrcode>>

\* The value of the two variables while the parser has not created the
\* images.
NoElement == "no element"

Init ==
  /\ ver \in Versions
  /\ currentYear \in CurrentYears
  /\ bibFile \in Files
  /\ pc = "load"
  /\ domReady = FALSE
  /\ bibtex = <<>>
  /\ entries = <<>>
  /\ html = <<>>
  /\ container = InitialContent
  /\ console = <<>>
  /\ reason = "none"
  /\ trace = <<>>
  /\ fieldIn = <<>>
  /\ fieldOut = <<>>
  /\ avatar = NoElement
  /\ qrcode = NoElement

\* The script element in the head runs: fetch(bibtexURL) is called.
RunScript ==
  /\ pc = "load"
  /\ pc' = "fetching"
  /\ trace' = Append(trace, "fetch")
  /\ UNCHANGED <<ver, currentYear, bibFile, domReady, bibtex, entries, html,
                 container, console, reason, fieldIn, fieldOut,
                 avatar, qrcode>>

\* The parser passes the two images and the script element that declares
\* toggleQRCode: avatar has no inline display, qrcode has display: none.
ParseImages ==
  /\ pc # "load"
  /\ qrcode = NoElement
  /\ avatar' = ""
  /\ qrcode' = "none"
  /\ UNCHANGED <<ver, currentYear, bibFile, pc, domReady, bibtex, entries, html,
                 container, console, reason, trace, fieldIn, fieldOut>>

\* A click handler that switches the display of qrcode alone.
ToggleOnlyQRCode ==
  /\ qrcode # NoElement
  /\ qrcode' = IF qrcode = "none" THEN "block" ELSE "none"
  /\ UNCHANGED <<ver, currentYear, bibFile, pc, domReady, bibtex, entries, html,
                 container, console, reason, trace, fieldIn, fieldOut, avatar>>

\* A click on either image: toggleQRCode().
toggleQRCode ==
  /\ qrcode # NoElement
  /\ IF qrcode = "none"
       THEN /\ qrcode' = "block"
            /\ avatar' = "none"
       ELSE /\ qrcode' = "none"
            /\ avatar' = "block"
  /\ UNCHANGED <<ver, currentYear, bibFile, pc, domReady, bibtex, entries, html,
                 container, console, reason, trace, fieldIn, fieldOut>>

\* The parser reaches the div, which comes after the script element in the
\* head and after the images.
ParseDocument ==
  /\ pc # "load"
  /\ qrcode # NoElement
  /\ ~domReady
  /\ domReady' = TRUE
  /\ UNCHANGED <<ver, currentYear, bibFile, pc, bibtex, entries, html,
                 container, console, reason, trace, fieldIn, fieldOut,
                 avatar, qrcode>>

\* The fetch promise is fulfilled: response => response.text() runs.
FetchFulfilled ==
  /\ pc = "fetching"
  /\ pc' = "reading"
  /\ trace' = Append(trace, "response.text")
  /\ UNCHANGED <<ver, currentYear, bibFile, domReady, bibtex, entries, html,
                 container, console, reason, fieldIn, fieldOut,
                 avatar, qrcode>>

\* A chain that fetches again when the fetch has failed.
FetchRetried ==
  /\ pc = "fetching"
  /\ trace = <<"fetch">>
  /\ trace' = Append(trace, "fetch")
  /\ UNCHANGED <<ver, currentYear, bibFile, pc, domReady, bibtex, entries, html,
                 container, console, reason, fieldIn, fieldOut,
                 avatar, qrcode>>

\* The fetch promise is rejected: both then callbacks are skipped.
FetchRejected ==
  /\ pc = "fetching"
  /\ pc' = "rejected"
  /\ reason' = "fetch failed"
  /\ UNCHANGED <<ver, currentYear, bibFile, domReady, bibtex, entries, html,
                 container, console, trace, fieldIn, fieldOut,
                 avatar, qrcode>>

\* response.text() is fulfilled with the text of the file.
TextFulfilled ==
  /\ pc = "reading"
  /\ pc' = "text"
  /\ bibtex' = TextOf(bibFile)
  /\ trace' = Append(trace, "text")
  /\ UNCHANGED <<ver, currentYear, bibFile, domReady, entries, html,
                 container, console, reason, fieldIn, fieldOut,
                 avatar, qrcode>>

\* A chain that goes on with an empty text when the body cannot be read.
TextRejectedAsEmpty ==
  /\ pc = "reading"
  /\ pc' = "text"
  /\ reason' = "text failed"
  /\ UNCHANGED <<ver, currentYear, bibFile, domReady, bibtex, entries, html,
                 container, console, trace, fieldIn, fieldOut,
                 avatar, qrcode>>

\* response.text() is rejected: the second then callback is skipped.
TextRejected ==
  /\ pc = "reading"
  /\ pc' = "rejected"
  /\ reason' = "text failed"
  /\ UNCHANGED <<ver, currentYear, bibFile, domReady, bibtex, entries, html,
                 container, console, trace, fieldIn, fieldOut,
                 avatar, qrcode>>

\* What console.log prints at the end of the callback.
logged(v) == IF v = 3 THEN <<"log", "entries">> ELSE <<"log", "html">>

\* The calls of the callback when parseBibtex throws, when renderHTML
\* throws, when the assignment to innerHTML throws, and when nothing does.
callsParse == <<"parseBibtex">>
callsRender == callsParse \o <<"parseBibtex returned", "renderHTML">>
callsWrite == callsRender \o <<"renderHTML returned", "getElementById">>
callsAll == callsWrite \o <<"innerHTML", "console.log">>

\* The second then callback, bibtex => { ... }, from start to end.  A throw
\* inside it rejects the promise that catch listens to.
Callback ==
  /\ pc = "text"
  /\ LET parsed == parseBibtex(ver, bibtex, currentYear)
     IN  IF parsed.threw
           THEN /\ pc' = "rejected"
                /\ reason' = "TypeError"
                /\ trace' = trace \o callsParse
                /\ UNCHANGED <<entries, html, container, console>>
           ELSE \E sorted \in sortOutcomes(ver, parsed.entries) :
                  LET rendered == renderHTML(ver, sorted)
                  IN  /\ entries' = rendered.entries
                      /\ IF rendered.threw
                           THEN /\ pc' = "rejected"
                                /\ reason' = "TypeError"
                                /\ trace' = trace \o callsRender
                                /\ UNCHANGED <<html, container, console>>
                           ELSE /\ html' = rendered.html
                                /\ IF ~domReady
                                     THEN /\ pc' = "rejected"
                                          /\ reason' = "TypeError"
                                          /\ trace' = trace \o callsWrite
                                          /\ UNCHANGED <<container, console>>
                                     ELSE /\ pc' = "done"
                                          /\ container' = rendered.html
                                          /\ console' = Append(console, logged(ver))
                                          /\ trace' = trace \o callsAll
                                          /\ UNCHANGED reason
  /\ UNCHANGED <<ver, currentYear, bibFile, domReady, bibtex, fieldIn, fieldOut,
                 avatar, qrcode>>

\* The catch callback: the reason goes to console.error.
Catch ==
  /\ pc = "rejected"
  /\ pc' = "done"
  /\ console' = Append(console, <<"error", reason>>)
  /\ trace' = Append(trace, "console.error")
  /\ UNCHANGED <<ver, currentYear, bibFile, domReady, bibtex, entries, html,
                 container, reason, fieldIn, fieldOut, avatar, qrcode>>

Next ==
  \/ RunScript
  \/ ParseImages
  \/ toggleQRCode
  \/ ParseDocument
  \/ FetchFulfilled
  \/ FetchRejected
  \/ TextFulfilled
  \/ TextRejected
  \/ Callback
  \/ Catch

Spec == Init /\ [][Next]_vars

\* The catch callback is a promise reaction: once the chain is rejected the
\* job queue runs it.
SpecLive == Init /\ [][Next]_vars /\ WF_vars(Catch)

---------------------------------------------------------------------------
(* What the blocks of the file are, read off their text *)

BlockInfo ==
  << [entry |-> TRUE, wellFormed |-> TRUE, key |-> <<"p">>, hasYear |-> TRUE, year |-> 2021],
     [entry |-> TRUE, wellFormed |-> TRUE, key |-> <<"q">>, hasYear |-> TRUE, year |-> 2022],
     [entry |-> TRUE, wellFormed |-> TRUE, key |-> <<"r">>, hasYear |-> FALSE, year |-> 0],
     [entry |-> TRUE, wellFormed |-> FALSE, key |-> <<>>, hasYear |-> FALSE, year |-> 0],
     [entry |-> FALSE, wellFormed |-> FALSE, key |-> <<>>, hasYear |-> FALSE, year |-> 0] >>

Called(call) == \E i \in 1..Len(trace) : trace[i] = call

Count(call) == Cardinality({i \in 1..Len(trace) : trace[i] = call})

Before(a, b) ==
  \A j \in 1..Len(trace) : trace[j] = b => \E i \in 1..(j - 1) : trace[i] = a

\* The array that parseBibtex returned to the callback.
Parsed == parseBibtex(ver, bibtex, currentYear).entries

Keys(arr) == [i \in 1..Len(arr) |-> get(arr[i], kKey)]

Contains(s, t) ==
  \E o \in 0..(Len(s) - Len(t)) : SubSeq(s, o + 1, o + Len(t)) = t

\* The div shows a block made from a record with this key.
Appears(key) ==
  \E i \in 1..Len(entries) :
    /\ get(entries[i], kKey) = key
    /\ Contains(container, entryBlock(ver, entries[i]))

\* The callback ran to its end: the fragment is on the page.
Displayed == pc = "done" /\ reason = "none"

\* C1: once the fragment is displayed, every well-formed entry of the file
\* that has a 4-digit year appears in it if and only if its year is at
\* least currentYear - 3, wherever the entry stands in the file.
C1_YearWindow ==
  Displayed =>
    \A i \in 1..Len(bibFile) :
      LET b == BlockInfo[bibFile[i]]
      IN  (b.wellFormed /\ b.hasYear) =>
            (Appears(b.key) <=> b.year >= currentYear - Window)

\* The numeric year of a record, NaN when it has none.
YearOf(entry) == ToNumber(get(entry, kYear))

\* out is a stable rearrangement of in: ties of year keep their order.
StableRearrangement(in, out) ==
  /\ Len(in) = Len(out)
  /\ \E f \in [1..Len(out) -> 1..Len(in)] :
       /\ \A i, j \in 1..Len(out) : f[i] = f[j] => i = j
       /\ \A i \in 1..Len(out) : out[i] = in[f[i]]
       /\ \A i, j \in 1..Len(out) :
            (i < j /\ YearOf(out[i]) = YearOf(out[j])) => f[i] < f[j]

Descending(out) ==
  \A i, j \in 1..Len(out) :
    (i < j /\ ~YearOf(out[i]).nan /\ ~YearOf(out[j]).nan)
      => YearOf(out[i]).val >= YearOf(out[j]).val

\* C2: when renderHTML has returned, the blocks of its fragment are in
\* descending order of numeric year, and records with equal or missing year
\* are in the order they had in the array passed in.
C2_SortedByYear ==
  Called("renderHTML returned") =>
    /\ html = wrap(ver, mapJoin(ver, entries))
    /\ Descending(entries)
    /\ StableRearrangement(Parsed, entries)

FetchFailed == reason \in {"fetch failed", "text failed"}

\* After a rejected fetch or response.text(): neither function has been
\* called and the div holds what it held at the start.
NothingRendered ==
  FetchFailed =>
    /\ ~Called("parseBibtex") /\ ~Called("renderHTML")
    /\ ~Called("innerHTML")
    /\ container = InitialContent /\ html = <<>> /\ entries = <<>>
    /\ pc \in {"rejected", "done"}
    /\ pc = "done" => console = << <<"error", reason>> >>

Reported == \E i \in 1..Len(console) : console[i] = <<"error", reason>>

\* C3: when the fetch promise or response.text() rejects, parseBibtex and
\* renderHTML are never run, the div keeps its initial content, and the
\* error is reported on console.error, alone on the console.
C3_FetchFailure == [](NothingRendered) /\ (FetchFailed ~> Reported)

C3_Witness ==
  /\ pc = "done" /\ reason = "text failed" /\ domReady
  /\ Called("console.error")

\* The file without its malformed entries: a header without a brace goes,
\* and so do the stray lines that follow it.
RECURSIVE WithoutMalformed(_, _)
WithoutMalformed(file, dropping) ==
  IF file = <<>> THEN <<>>
  ELSE IF BlockInfo[Head(file)].entry /\ ~BlockInfo[Head(file)].wellFormed
    THEN WithoutMalformed(Tail(file), TRUE)
  ELSE IF ~BlockInfo[Head(file)].entry /\ dropping
    THEN WithoutMalformed(Tail(file), TRUE)
  ELSE <<Head(file)>> \o WithoutMalformed(Tail(file), FALSE)

Keyed(arr) == SelectSeq(arr, LAMBDA r : Truthy(get(r, kKey)))

\* C4: parseBibtex returns normally whatever the text, and the well-formed
\* entries are parsed as they are when the malformed ones are taken out of
\* the text.
C4_ParseTolerant ==
  Called("parseBibtex") =>
    /\ Called("parseBibtex returned")
    /\ Keyed(Parsed)
         = Keyed(parseBibtex(ver, TextOf(WithoutMalformed(bibFile, FALSE)),
                             currentYear).entries)

\* C6: renderHTML returns the empty string for an empty array.
C6_EmptyFragment ==
  (Called("renderHTML returned") /\ Parsed = <<>>) => html = <<>>

\* C9: renderHTML leaves its argument as it was: the same records in the
\* same order.
C9_ArgumentUnchanged ==
  Called("renderHTML") => entries = Parsed

HasTypeAndKey(entry) == has(entry, kType) /\ has(entry, kKey)

\* C10: renderHTML returns a fragment for every array of records that have
\* type and key, whichever other fields they lack.
C10_RenderTotal ==
  (Called("renderHTML") /\ \A i \in 1..Len(Parsed) : HasTypeAndKey(Parsed[i]))
    => Called("renderHTML returned")

\* C7: fetch is called once per page load; parseBibtex starts after the
\* text has arrived and renderHTML after parseBibtex has returned; the div
\* is written at most once, with the value renderHTML returned.
C7_OnceInOrder ==
  /\ Count("fetch") = IF pc = "load" THEN 0 ELSE 1
  /\ Before("fetch", "text")
  /\ Before("text", "parseBibtex")
  /\ Before("parseBibtex returned", "renderHTML")
  /\ Before("renderHTML returned", "innerHTML")
  /\ Count("innerHTML") <= 1
  /\ IF Called("innerHTML")
       THEN /\ container = html
            /\ ~renderHTML(ver, entries).threw
            /\ html = renderHTML(ver, entries).html
            /\ entries \in sortOutcomes(ver, Parsed)
       ELSE container = InitialContent

C7_Witness ==
  /\ pc = "done" /\ Called("innerHTML") /\ Count("fetch") = 1
  /\ Len(entries) >= 2 /\ container # InitialContent

EntryBlocks(file) == SelectSeq(file, LAMBDA b : BlockInfo[b].entry)

BlockKeys(file) == [i \in 1..Len(file) |-> BlockInfo[file[i]].key]

\* The segments that the marker introduces in the text.
Segments == Tail(split(bibtex, "@"))

InWindow(b) ==
  BlockInfo[b].entry /\ BlockInfo[b].hasYear
    /\ BlockInfo[b].year >= currentYear - Window

HasNoBrace(file) ==
  \E i \in 1..Len(file) : BlockInfo[file[i]].entry /\ ~BlockInfo[file[i]].wellFormed

\* What version 1 makes of the lines before the first header.
LeadingKeys(file) ==
  IF file # <<>> /\ ~BlockInfo[Head(file)].entry THEN <<Undefined>> ELSE <<>>

---------------------------------------------------------------------------
(* The field branch on its own: one value, undecorated and decorated *)

\* The longest value.
MaxValueLen == 3

ValueChars == {"D", "e", " ", ","}

\* The values with no brace, no quote, no = and neither white space nor a
\* comma at either end.
PlainValues ==
  { v \in UNION { [1..n -> ValueChars] : n \in 1..MaxValueLen } :
      v[1] \in {"D", "e"} /\ v[Len(v)] \in {"D", "e"} }

Decorated(v, deco) ==
  IF deco = "braces" THEN <<"{">> \o v \o <<"}", ",">>
  ELSE <<"\"">> \o v \o <<"\"", ",">>

FieldLine(rhs) == <<" ", " ">> \o kTitle \o <<" ", "=", " ">> \o rhs

\* The value that the field branch stores for a line of the text.
parsedField(v, rawLine) ==
  LET line == trim(rawLine)
  IN  IF v = 3 THEN fieldValue3(line) ELSE fieldValue12(line)

InitField ==
  /\ ver \in Versions
  /\ currentYear \in CurrentYears
  /\ bibFile = <<>>
  /\ pc = "field"
  /\ domReady = FALSE
  /\ bibtex = <<>>
  /\ entries = <<>>
  /\ html = <<>>
  /\ container = InitialContent
  /\ console = <<>>
  /\ reason = "none"
  /\ trace = <<>>
  /\ fieldIn \in [value : PlainValues, deco : {"braces", "quotes"}]
  /\ fieldOut = <<>>
  /\ avatar = NoElement
  /\ qrcode = NoElement

\* The field branch runs on the undecorated and on the decorated line.
ParseField ==
  /\ pc = "field"
  /\ pc' = "fieldDone"
  /\ fieldOut' = <<parsedField(ver, FieldLine(fieldIn.value)),
                   parsedField(ver, FieldLine(Decorated(fieldIn.value, fieldIn.deco)))>>
  /\ UNCHANGED <<ver, currentYear, bibFile, domReady, bibtex, entries, html,
                 container, console, reason, trace, fieldIn, avatar, qrcode>>

NextField == ParseField

SpecField == InitField /\ [][NextField]_vars

\* C5: a value in braces or double quotes and followed by a comma is parsed
\* to the same field value as the value alone.
C5_DecorationInsensitive ==
  pc = "fieldDone" => /\ fieldOut[2] = fieldOut[1]
                      /\ fieldOut[1] = fieldIn.value

---------------------------------------------------------------------------
(* Claims about the text before the first marker, headers and the filter *)

\* The text from its first marker on.
FromFirstMarker(text) == SubSeq(text, indexOf(text, "@"), Len(text))

\* C12: the text before the first marker contributes nothing: parseBibtex
\* gives for the whole text what it gives for the text from the first marker
\* on, also when the lines before it hold an equals sign.
C12_PrefixDiscarded ==
  (Called("parseBibtex") /\ includes(bibtex, "@")) =>
    parseBibtex(ver, bibtex, currentYear)
      = parseBibtex(ver, FromFirstMarker(bibtex), currentYear)

\* The segments whose header line has no brace.
BraceLess == SelectSeq(Segments, LAMBDA seg : ~includes(Head(split(seg, "\n")), "{"))

\* C13: when a header line has no brace parseBibtex does not fail, and the
\* record built for that entry has the empty string as key and the trimmed
\* header text as type.
C13_HeaderWithoutBrace ==
  (Called("parseBibtex") /\ BraceLess # <<>>) =>
    /\ Called("parseBibtex returned")
    /\ \A i \in 1..Len(BraceLess) :
         /\ get(rawEntry(BraceLess[i]), kKey) = <<>>
         /\ get(rawEntry(BraceLess[i]), kType) = trim(Head(split(BraceLess[i], "\n")))

\* The year check of the version, made on a returned record.
PassedCutoff(entry) ==
  IF ver = 2
    THEN ~YearOf(entry).nan /\ YearOf(entry).val > currentYear - Window
    ELSE /\ Truthy(get(entry, kYear))
         /\ ~parseInt(get(entry, kYear)).nan
         /\ parseInt(get(entry, kYear)).val >= currentYear - Window

\* C18: in the two versions that filter by year, every record that
\* parseBibtex returns satisfies the cutoff of its version.
C18_ReturnedPassCutoff ==
  (ver \in {2, 3} /\ Called("parseBibtex returned")) =>
    \A i \in 1..Len(Parsed) : PassedCutoff(Parsed[i])

---------------------------------------------------------------------------
(* One entry on its own: a header, up to MaxFields field lines, a closing *)
(* brace.  parseBibtex and renderHTML run on that text.                   *)

\* two names, a comma inside each
LineAuthor ==
  <<" ", " ", "a", "u", "t", "h", "o", "r", " ", "=", " ", "{", "D", "o",
  "e", ",", " ", "J", ".", " ", "a", "n", "d", " ", "R", "o", "e", ",",
  " ", "K", ".", "}", ",", "\n">>

\* the field name with a capital letter
LineYear ==
  <<" ", " ", "Y", "e", "a", "r", " ", "=", " ", "{", "2", "0", "2", "4",
  "}", ",", "\n">>

\* an equals sign inside the value
LineTitle ==
  <<" ", " ", "t", "i", "t", "l", "e", " ", "=", " ", "{", "a", "=", "b",
  "}", ",", "\n">>

\* a venue field that is present and empty
LineJournal ==
  <<" ", " ", "j", "o", "u", "r", "n", "a", "l", " ", "=", " ", "{", "}",
  ",", "\n">>

LineBooktitle ==
  <<" ", " ", "b", "o", "o", "k", "t", "i", "t", "l", "e", " ", "=", " ",
  "{", "B", "}", ",", "\n">>

LinePublisher ==
  <<" ", " ", "p", "u", "b", "l", "i", "s", "h", "e", "r", " ", "=", " ",
  "{", "P", "}", ",", "\n">>

LineHowpublished ==
  <<" ", " ", "h", "o", "w", "p", "u", "b", "l", "i", "s", "h", "e", "d",
  " ", "=", " ", "{", "H", "}", ",", "\n">>

\* a field named as the header attribute
LineType ==
  <<" ", " ", "t", "y", "p", "e", " ", "=", " ", "{", "x", "}", ",",
  "\n">>

\* a marker inside a value
LineNote ==
  <<" ", " ", "n", "o", "t", "e", " ", "=", " ", "a", "@", "b", ",",
  "\n">>

\* a year that starts with digits and is not a number
LineOddYear ==
  <<" ", " ", "y", "e", "a", "r", " ", "=", " ", "{", "2", "0", "2", "2",
  "a", "}", ",", "\n">>

EntryHeader ==
  <<"@", "a", "r", "t", "i", "c", "l", "e", "{", "k", ",", "\n">>

EntryFooter ==
  <<"}", "\n">>

EntryLines ==
  <<LineAuthor, LineYear, LineTitle, LineJournal, LineBooktitle,
    LinePublisher, LineHowpublished, LineType, LineNote, LineOddYear>>

\* What each line says: the field name in lower case, the value between
\* its decoration, and whether the renderer or the filter looks the name up.
LineInfo ==
  << [name |-> <<"a", "u", "t", "h", "o", "r">>, value |-> <<"D", "o", "e", ",", " ", "J", ".", " ", "a", "n", "d", " ", "R", "o", "e", ",", " ", "K", ".">>, known |-> TRUE],
     [name |-> <<"y", "e", "a", "r">>, value |-> <<"2", "0", "2", "4">>, known |-> TRUE],
     [name |-> <<"t", "i", "t", "l", "e">>, value |-> <<"a", "=", "b">>, known |-> TRUE],
     [name |-> <<"j", "o", "u", "r", "n", "a", "l">>, value |-> <<>>, known |-> TRUE],
     [name |-> <<"b", "o", "o", "k", "t", "i", "t", "l", "e">>, value |-> <<"B">>, known |-> TRUE],
     [name |-> <<"p", "u", "b", "l", "i", "s", "h", "e", "r">>, value |-> <<"P">>, known |-> TRUE],
     [name |-> <<"h", "o", "w", "p", "u", "b", "l", "i", "s", "h", "e", "d">>, value |-> <<"H">>, known |-> TRUE],
     [name |-> <<"t", "y", "p", "e">>, value |-> <<"x">>, known |-> FALSE],
     [name |-> <<"n", "o", "t", "e">>, value |-> <<"a", "@", "b">>, known |-> FALSE],
     [name |-> <<"y", "e", "a", "r">>, value |-> <<"2", "0", "2", "2", "a">>, known |-> TRUE] >>

\* The most field lines in the entry.
MaxFields == 3

LineChoices == UNION { [1..n -> 1..Len(EntryLines)] : n \in 0..MaxFields }

RECURSIVE joinLines(_)
joinLines(choice) ==
  IF choice = <<>> THEN <<>>
  ELSE EntryLines[Head(choice)] \o joinLines(Tail(choice))

\* The text of the entry with the chosen lines.
EntryText(choice) == EntryHeader \o joinLines(choice) \o EntryFooter

InitEntry ==
  /\ ver \in Versions
  /\ currentYear \in CurrentYears
  /\ bibFile = <<>>
  /\ pc = "entry"
  /\ domReady = FALSE
  /\ fieldIn \in LineChoices
  /\ bibtex = EntryText(fieldIn)
  /\ entries = <<>>
  /\ html = <<>>
  /\ container = InitialContent
  /\ console = <<>>
  /\ reason = "none"
  /\ trace = <<>>
  /\ fieldOut = <<>>
  /\ avatar = NoElement
  /\ qrcode = NoElement

\* const entries = parseBibtex(bibtex)
ParseEntry ==
  /\ pc = "entry"
  /\ LET parsed == parseBibtex(ver, bibtex, currentYear)
     IN  IF parsed.threw
           THEN /\ pc' = "entryThrew"
                /\ reason' = "TypeError"
                /\ UNCHANGED entries
           ELSE /\ pc' = "entryParsed"
                /\ entries' = parsed.entries
                /\ UNCHANGED reason
  /\ UNCHANGED <<ver, currentYear, bibFile, domReady, bibtex, html, container,
                 console, trace, fieldIn, fieldOut, avatar, qrcode>>

\* const html = renderHTML(entries)
RenderEntry ==
  /\ pc = "entryParsed"
  /\ \E sorted \in sortOutcomes(ver, entries) :
       LET rendered == renderHTML(ver, sorted)
       IN  /\ entries' = rendered.entries
           /\ IF rendered.threw
                THEN /\ pc' = "entryThrew"
                     /\ reason' = "TypeError"
                     /\ UNCHANGED html
                ELSE /\ pc' = "entryRendered"
                     /\ html' = rendered.html
                     /\ UNCHANGED reason
  /\ UNCHANGED <<ver, currentYear, bibFile, domReady, bibtex, container,
                 console, trace, fieldIn, fieldOut, avatar, qrcode>>

NextEntry ==
  \/ ParseEntry
  \/ RenderEntry

SpecEntry == InitEntry /\ [][NextEntry]_vars

---------------------------------------------------------------------------
(* Claims about the fields of one entry *)

Chosen(i) == \E j \in 1..Len(fieldIn) : fieldIn[j] = i

\* The chosen lines whose name the renderer or the filter looks up.
KnownOnly(choice) == SelectSeq(choice, LAMBDA i : LineInfo[i].known)

\* What the callback can get from a text: a throw, or a fragment.
Outcomes(v, text, year) ==
  LET parsed == parseBibtex(v, text, year)
  IN  IF parsed.threw THEN {[threw |-> TRUE, html |-> <<>>]}
      ELSE { [threw |-> renderHTML(v, s).threw, html |-> renderHTML(v, s).html] :
               s \in sortOutcomes(v, parsed.entries) }

EntryDone == pc \in {"entryRendered", "entryThrew"}

\* C11: the lines with an unknown field name do not influence the output:
\* the entry gives what the entry without those lines gives, for the same
\* current year.
C11_UnknownFieldsIgnored ==
  EntryDone =>
    [threw |-> pc = "entryThrew", html |-> html]
      \in Outcomes(ver, EntryText(KnownOnly(fieldIn)), currentYear)

HeaderType == <<"a", "r", "t", "i", "c", "l", "e">>
HeaderKey == <<"k">>

\* C14: every record that parseBibtex built has the type and the key of the
\* header line, whatever field lines the entry has.
C14_HeaderAttributesKept ==
  pc = "entryParsed" =>
    \A i \in 1..Len(entries) :
      /\ get(entries[i], kType) = HeaderType
      /\ get(entries[i], kKey) = HeaderKey

\* The properties that the field lines can have stored.
FieldProperties(entry) ==
  SelectSeq(entry, LAMBDA p : p[1] # kType /\ p[1] # kKey)

\* C15: every stored field value is the whole value of a line of that name:
\* the text after the first equals sign without its decoration, an equals
\* sign and the commas inside it kept.
C15_ValueKeptWhole ==
  pc = "entryParsed" =>
    \A i \in 1..Len(entries) :
      \A j \in 1..Len(FieldProperties(entries[i])) :
        LET p == FieldProperties(entries[i])[j]
        IN  \E l \in 1..Len(EntryLines) :
              /\ Chosen(l)
              /\ LineInfo[l].name = toLowerCase(p[1])
              /\ LineInfo[l].value = p[2]

\* C16: every property name of a record is a trimmed, lower-case name, so
\* a field written Year is found under year.
C16_NamesLowerCased ==
  pc = "entryParsed" =>
    \A i \in 1..Len(entries) :
      \A j \in 1..Len(entries[i]) :
        entries[i][j][1] = toLowerCase(trim(entries[i][j][1]))

\* A chosen line gives the entry a year that is a numeric string.
HasNumericYear ==
  \E l \in 1..Len(EntryLines) :
    /\ Chosen(l)
    /\ LineInfo[l].name = kYear
    /\ LineInfo[l].value # <<>>
    /\ \A i \in 1..Len(LineInfo[l].value) : IsDigit(LineInfo[l].value[i])

\* C17: in the versions with a year window, an entry that has no year or a
\* year that is not a numeric string leaves no block in the fragment.
C17_NoYearNoBlock ==
  (ver \in {2, 3} /\ pc = "entryRendered" /\ ~HasNumericYear) =>
    html = wrap(ver, <<>>)

HasAuthorLine == \E l \in 1..Len(EntryLines) : Chosen(l) /\ EntryLines[l] = LineAuthor

\* The text to show for the author of LineAuthor.
ShownAuthors ==
  <<"D", "o", "e", ",", " ", "J", ".", ",", " ", "R", "o", "e", ",", " ",
  "K", ".">>

\* C19: the authors shown for {Doe, J. and Roe, K.} are Doe, J., Roe, K.:
\* the separator replaced, every other character kept.
C19_AuthorsShown ==
  (pc = "entryRendered" /\ HasAuthorLine /\ entries # <<>>) =>
    Contains(html, ShownAuthors)

VenueNames == <<kJournal, kBooktitle, kPublisher, kHowpublished>>

\* The chosen lines of a name that have a value.
NonEmptyLines(name) ==
  { l \in 1..Len(EntryLines) :
      Chosen(l) /\ LineInfo[l].name = name /\ LineInfo[l].value # <<>> }

\* The value of the first venue field, in the order of the claim, that is
\* present and not empty; the empty text when there is none.
RECURSIVE firstVenue(_)
firstVenue(names) ==
  IF names = <<>> THEN <<>>
  ELSE IF NonEmptyLines(Head(names)) # {}
    THEN LineInfo[CHOOSE l \in NonEmptyLines(Head(names)) : TRUE].value
    ELSE firstVenue(Tail(names))

\* The literal text before the venue in the block of the version.
venueLead(v) == IF v = 3 THEN ". " ELSE "\"</i>\n        "

\* C20: the venue shown is the first present and non-empty field among
\* journal, booktitle, publisher and howpublished, and the empty text when
\* there is none.
C20_VenueShown ==
  (pc = "entryRendered" /\ entries # <<>>) =>
    Contains(html, <<venueLead(ver)>> \o firstVenue(VenueNames) \o <<", ">>)

---------------------------------------------------------------------------
(* Claims about the page: the container and the two images *)

\* C21: in the script that the head loads, whenever the callback asks for
\* the element bibtexEntries the element exists, so the assignment of the
\* fragment to innerHTML is made, in every interleaving of the parser and
\* the fetch.
C21_ContainerExists ==
  (ver = 1 /\ Called("getElementById")) => Called("innerHTML")

\* A chosen line has a marker inside its value.
HasMarkerLine ==
  \E l \in 1..Len(EntryLines) : Chosen(l) /\ includes(LineInfo[l].value, "@")

\* The record holds a property for the field name of every chosen line.
HoldsChosenFields(entry) ==
  \A l \in 1..Len(EntryLines) :
    Chosen(l) =>
      \E j \in 1..Len(entry) : toLowerCase(entry[j][1]) = LineInfo[l].name

\* C22: a marker inside a field value neither ends the entry nor starts
\* one: the text with one header gives at most one record, that record is
\* the one of the header, and the field lines after the marker belong to it.
C22_MarkerInsideValue ==
  (pc = "entryParsed" /\ HasMarkerLine) =>
    /\ Len(entries) <= 1
    /\ \A i \in 1..Len(entries) :
         /\ get(entries[i], kKey) = HeaderKey
         /\ HoldsChosenFields(entries[i])

\* An image is displayed unless its inline display is none.
Shown(display) == display # NoElement /\ display # "none"

\* C23: from the time the images exist exactly one of avatar and qrcode is
\* displayed, and every call of toggleQRCode switches which one it is.
C23_OneImageShown ==
  /\ [](qrcode # NoElement => (Shown(avatar) <=> ~Shown(qrcode)))
  /\ [][(qrcode # NoElement /\ qrcode' # qrcode) =>
          (Shown(avatar') <=> ~Shown(avatar))]_vars

\* The QR code is displayed after a call, the avatar hidden.
C23_Witness == qrcode = "block" /\ avatar = "none"

====
